---- MODULE Spec2Model ----
(***************************************************************************)
(* The three IAM policy patch scripts of lambdas/auth-handler:             *)
(*   update-policy.py            stdin -> stdout filter, backdoor-secret   *)
(*   update-telnyx-policy.py     get-role-policy / patch / put-role-policy *)
(*   update-short-urls-policy.py get-role-policy / patch / put-role-policy *)
(*                                                                         *)
(* Spec     one script applied to one policy document, then applied again  *)
(*          to its own output.                                             *)
(* RunSpec  one run of update-telnyx-policy.py and one run of              *)
(*          update-short-urls-policy.py against the same stored policy.    *)
(***************************************************************************)
EXTENDS Integers, Sequences, FiniteSets, TLC

VARIABLES
  \* Spec
  script,      \* the script that is run
  data,        \* its input: the PolicyDocument and how it is encoded
  pc,          \* "input", "applied", "reapplied"
  result,      \* outcome of the run
  result2,     \* outcome of the run on the first run's document
  \* RunSpec, per run where indexed
  store,       \* the policy held by IAM for the role and policy name
  rpc,         \* position of each run in its script
  stdout,      \* what get-role-policy printed for each run
  json_range,  \* json_start, json_end of each run (1-based, 0 for -1)
  policy_doc,  \* each run's in-memory document
  outcome,     \* each run's patch outcome
  exitcode,    \* each run's exit status, -1 while it runs
  trail,       \* history: the steps each run has taken, in order
  writes,      \* history: the runs whose put-role-policy succeeded, in order
  readAt       \* history: Len(writes) when each run read the policy

patchVars == <<script, data, pc, result, result2>>
runVars == <<store, rpc, stdout, json_range, policy_doc, outcome, exitcode,
             trail, writes, readAt>>
vars == <<script, data, pc, result, result2,
          store, rpc, stdout, json_range, policy_doc, outcome, exitcode,
          trail, writes, readAt>>

(***************************************************************************)
(* Bounds.                                                                 *)
(***************************************************************************)
\* longest Statement list of an input document of Spec
MaxStatements == 2
\* longest Statement list of the stored policy of RunSpec
MaxStored == 2

(***************************************************************************)
(* JSON values.  A field of a JSON object is absent, a bare string or an   *)
(* array; val always holds the elements, kind tells the serialization.     *)
(***************************************************************************)
Missing == [kind |-> "missing", val |-> <<>>]
Str(s) == [kind |-> "str", val |-> <<s>>]
List(q) == [kind |-> "list", val |-> q]

\* Action names are sequences of characters: the DynamoDB predicate looks
\* inside them.  Resource ARNs are only ever compared whole.
SecretsGetSecretValue == <<"s","e","c","r","e","t","s","m","a","n","a","g","e","r",":","G","e","t","S","e","c","r","e","t","V","a","l","u","e">>
SecretsLowerCase == <<"s","e","c","r","e","t","s","m","a","n","a","g","e","r",":","g","e","t","s","e","c","r","e","t","v","a","l","u","e">>
DynamoGetItem == <<"d","y","n","a","m","o","d","b",":","G","e","t","I","t","e","m">>
DynamoPutItem == <<"d","y","n","a","m","o","d","b",":","P","u","t","I","t","e","m">>
DynamoUpdateItem == <<"d","y","n","a","m","o","d","b",":","U","p","d","a","t","e","I","t","e","m">>
DynamoDeleteItem == <<"d","y","n","a","m","o","d","b",":","D","e","l","e","t","e","I","t","e","m">>
DynamoQuery == <<"d","y","n","a","m","o","d","b",":","Q","u","e","r","y">>
DynamoMixedCase == <<"D","y","n","a","m","o","D","B",":","Q","u","e","r","y">>
S3GetObject == <<"s","3",":","G","e","t","O","b","j","e","c","t">>
dynamodb == <<"d","y","n","a","m","o","d","b">>

backdoor_arn == "arn:aws:secretsmanager:*:*:secret:mobile-app/backdoor-secret-*"
telnyx_arn == "arn:aws:secretsmanager:*:*:secret:mobile-app/telnyx-api-key-*"
short_urls_arn == "arn:aws:dynamodb:*:*:table/mobile-short-urls"
\* resources a stored policy may also hold
ShortUrlsUpperCase == "arn:aws:dynamodb:*:*:table/MOBILE-SHORT-URLS"
AnyResource == "*"

Scripts == {"update-policy", "update-telnyx-policy", "update-short-urls-policy"}

(***************************************************************************)
(* Python's str.lower() and the substring test 'x in s' on strings.        *)
(***************************************************************************)
UpperToLower ==
  ("A" :> "a") @@ ("B" :> "b") @@ ("C" :> "c") @@ ("D" :> "d") @@ ("E" :> "e") @@
  ("F" :> "f") @@ ("G" :> "g") @@ ("H" :> "h") @@ ("I" :> "i") @@ ("J" :> "j") @@
  ("K" :> "k") @@ ("L" :> "l") @@ ("M" :> "m") @@ ("N" :> "n") @@ ("O" :> "o") @@
  ("P" :> "p") @@ ("Q" :> "q") @@ ("R" :> "r") @@ ("S" :> "s") @@ ("T" :> "t") @@
  ("U" :> "u") @@ ("V" :> "v") @@ ("W" :> "w") @@ ("X" :> "x") @@ ("Y" :> "y") @@
  ("Z" :> "z")

lower(s) ==
  [i \in 1..Len(s) |-> IF s[i] \in DOMAIN UpperToLower THEN UpperToLower[s[i]] ELSE s[i]]

Contains(sub, s) ==
  \E i \in 1..(Len(s) - Len(sub) + 1) : SubSeq(s, i, i + Len(sub) - 1) = sub

\* x in list
InList(x, q) == \E i \in 1..Len(q) : q[i] = x

(***************************************************************************)
(* Reading a field of a statement:                                         *)
(*   v = statement.get(key, []); if isinstance(v, str): v = [v]            *)
(***************************************************************************)
AsList(field) ==
  IF field.kind = "missing" THEN <<>>
  ELSE IF field.kind = "str" THEN <<field.val[1]>>
  ELSE field.val

(***************************************************************************)
(* The match predicates.                                                   *)
(***************************************************************************)
MatchesSecretsFolded(actions) ==
  \E i \in 1..Len(actions) : lower(actions[i]) = lower(SecretsGetSecretValue)

\* 'secretsmanager:GetSecretValue' in actions
MatchesSecrets(actions) == InList(SecretsGetSecretValue, actions)

\* any('dynamodb' in str(action).lower() for action in actions)
MatchesDynamo(actions) ==
  \E i \in 1..Len(actions) : Contains(dynamodb, lower(actions[i]))

Matches(s, actions) ==
  IF s = "update-short-urls-policy" THEN MatchesDynamo(actions)
  ELSE MatchesSecrets(actions)

TargetArn(s) ==
  IF s = "update-policy" THEN backdoor_arn
  ELSE IF s = "update-telnyx-policy" THEN telnyx_arn
  ELSE short_urls_arn

(***************************************************************************)
(* The body of the matched branch: ensure arn is in the statement's        *)
(* Resource.  Returns the statement and what was printed.                  *)
(***************************************************************************)
EnsureResourceRewrite(statement, arn) ==
  LET resources == AsList(statement.Resource) IN
  IF ~InList(arn, resources)
  THEN [statement |-> [statement EXCEPT !.Resource = List(Append(resources, arn))],
        msg |-> "added"]
  ELSE [statement |-> [statement EXCEPT !.Resource = List(resources)],
        msg |-> "already"]

EnsureResourceReplace(statement, arn) ==
  LET resources == AsList(statement.Resource) IN
  IF ~InList(arn, resources)
  THEN [statement |-> [statement EXCEPT !.Resource = List(<<arn>>)],
        msg |-> "added"]
  ELSE [statement |-> statement, msg |-> "already"]

EnsureResource(statement, arn) ==
  LET resources == AsList(statement.Resource) IN
  IF ~InList(arn, resources)
  THEN [statement |-> [statement EXCEPT !.Resource = List(Append(resources, arn))],
        msg |-> "added"]
  ELSE [statement |-> statement, msg |-> "already"]

(***************************************************************************)
(* The loop over the statements, from position i on, with its break.       *)
(***************************************************************************)
RECURSIVE PatchLoop(_, _, _)
PatchLoop(stmts, i, s) ==
  IF i > Len(stmts)
  THEN [found |-> FALSE, stmts |-> stmts, msg |-> "none", at |-> 0]
  ELSE IF Matches(s, AsList(stmts[i].Action))
       THEN LET e == EnsureResource(stmts[i], TargetArn(s)) IN
            [found |-> TRUE, stmts |-> [stmts EXCEPT ![i] = e.statement],
             msg |-> e.msg, at |-> i]
       ELSE PatchLoop(stmts, i + 1, s)

(***************************************************************************)
(* The statement update-short-urls-policy.py creates when none matched.    *)
(***************************************************************************)
new_statement_index_arn ==
  [Effect |-> "Allow", Sid |-> Missing,
   Action |-> List(<<DynamoGetItem, DynamoPutItem, DynamoUpdateItem,
                     DynamoDeleteItem, DynamoQuery>>),
   Resource |-> List(<<"arn:aws:dynamodb:*:*:table/mobile-short-urls/index/*">>)]

new_statement ==
  [Effect |-> "Allow", Sid |-> Missing,
   Action |-> List(<<DynamoGetItem, DynamoPutItem, DynamoUpdateItem,
                     DynamoDeleteItem, DynamoQuery>>),
   Resource |-> List(<<short_urls_arn>>)]

CreateStatementFirst(stmts) == <<new_statement>> \o stmts

\* policy_doc['Statement'].append(new_statement)
CreateStatement(stmts) == Append(stmts, new_statement)

(***************************************************************************)
(* Outcomes of the patch step of a script.  status is "ok" when the script *)
(* goes on with the document (prints it, or hands it to put-role-policy),  *)
(* "exit1" for sys.exit(1), "exception" for an uncaught Python exception   *)
(* (traceback, exit status 1).  On a failure no document is left.          *)
(***************************************************************************)
NoDocument == [Version |-> "none", Statement |-> Missing]

Failed(status) == [status |-> status, doc |-> NoDocument, msg |-> "none", at |-> 0]

Patched(doc, loop) ==
  [status |-> "ok", doc |-> [doc EXCEPT !.Statement = List(loop.stmts)],
   msg |-> loop.msg, at |-> loop.at]

\* for statement in policy_doc.get('Statement', []): a missing field gives the
\* empty list; a Statement that is a single object iterates over its keys,
\* and statement.get on a key (a str) raises AttributeError.
StatementsOf(doc) == IF doc.Statement.kind = "list" THEN doc.Statement.val ELSE <<>>

LoopRaises(doc) == doc.Statement.kind = "object"

\* update-policy.py, lines 15-36
update_policy(doc) ==
  IF LoopRaises(doc) THEN Failed("exception")
  ELSE IF doc.Statement.kind = "missing"
       THEN [status |-> "ok", doc |-> doc, msg |-> "none", at |-> 0]
       ELSE Patched(doc, PatchLoop(StatementsOf(doc), 1, "update-policy"))

telnyx_patch_no_exit(doc) ==
  IF LoopRaises(doc) THEN Failed("exception")
  ELSE IF doc.Statement.kind = "missing"
       THEN [status |-> "ok", doc |-> doc, msg |-> "none", at |-> 0]
       ELSE Patched(doc, PatchLoop(StatementsOf(doc), 1, "update-telnyx-policy"))

\* update-telnyx-policy.py, lines 53-77
telnyx_patch(doc) ==
  IF LoopRaises(doc) THEN Failed("exception")
  ELSE LET loop == PatchLoop(StatementsOf(doc), 1, "update-telnyx-policy") IN
       IF ~loop.found THEN Failed("exit1") ELSE Patched(doc, loop)

short_urls_patch_always_create(doc) ==
  IF LoopRaises(doc) THEN Failed("exception")
  ELSE LET loop == PatchLoop(StatementsOf(doc), 1, "update-short-urls-policy") IN
       IF doc.Statement.kind = "missing" THEN Failed("exception")
       ELSE [status |-> "ok",
             doc |-> [doc EXCEPT !.Statement = List(CreateStatement(loop.stmts))],
             msg |-> "created", at |-> Len(loop.stmts) + 1]

\* update-short-urls-policy.py, lines 53-92
short_urls_patch(doc) ==
  IF LoopRaises(doc) THEN Failed("exception")
  ELSE LET loop == PatchLoop(StatementsOf(doc), 1, "update-short-urls-policy") IN
       IF loop.found THEN Patched(doc, loop)
       ELSE IF doc.Statement.kind = "missing" THEN Failed("exception")  \* KeyError
       ELSE [status |-> "ok",
             doc |-> [doc EXCEPT !.Statement = List(CreateStatement(loop.stmts))],
             msg |-> "created", at |-> Len(loop.stmts) + 1]

PatchOf(s, doc) ==
  IF s = "update-policy" THEN update_policy(doc)
  ELSE IF s = "update-telnyx-policy" THEN telnyx_patch(doc)
  ELSE short_urls_patch(doc)

(***************************************************************************)
(* Input documents.                                                        *)
(***************************************************************************)
ActionValues ==
  { Missing, Str(SecretsGetSecretValue), List(<<S3GetObject, SecretsGetSecretValue>>),
    List(<<SecretsLowerCase, DynamoMixedCase>>), Str(DynamoQuery) }

ResourceValues ==
  { Missing, Str(AnyResource), Str(short_urls_arn), Str(telnyx_arn),
    List(<<backdoor_arn, telnyx_arn>>), List(<<AnyResource, ShortUrlsUpperCase>>) }

Statement(effect, sid, action, resource) ==
  [Effect |-> effect, Sid |-> sid, Action |-> action, Resource |-> resource]

Statements ==
  { Statement("Allow", Missing, a, r) : a \in ActionValues, r \in ResourceValues }
  \cup { Statement("Deny", Str("DenySecrets"), Str(SecretsGetSecretValue), r) :
           r \in {Str(AnyResource), Str(telnyx_arn)} }

SeqsUpTo(S, n) == UNION { [1..k -> S] : k \in 0..n }

Document(statement) == [Version |-> "2012-10-17", Statement |-> statement]

Documents ==
  { Document(List(q)) : q \in SeqsUpTo(Statements, MaxStatements) }
  \cup { Document(Missing) }
  \cup { Document([kind |-> "object", val |-> <<st>>]) :
           st \in { Statement("Allow", Missing, Str(SecretsGetSecretValue), Str(AnyResource)),
                    Statement("Allow", Missing, Str(DynamoQuery), Str(AnyResource)) } }

\* data['PolicyDocument'] of update-policy.py is the object or its URL-encoded text
Encodings == {"object", "string"}

\* lines 8-12: policy_doc = data.get('PolicyDocument', {}), decoded when a str
PolicyDocumentOf(d) == d.doc

(***************************************************************************)
(* Spec: one script on one document, then again on its output.             *)
(***************************************************************************)
RunIdle ==
  /\ store = NoDocument
  /\ rpc = <<>> /\ stdout = <<>> /\ json_range = <<>> /\ policy_doc = <<>>
  /\ outcome = <<>> /\ exitcode = <<>> /\ trail = <<>>
  /\ writes = <<>> /\ readAt = <<>>

Init ==
  /\ script \in Scripts
  /\ data \in { [encoding |-> e, doc |-> d] : e \in Encodings, d \in Documents }
  /\ script # "update-policy" => data.encoding = "object"
  /\ pc = "input"
  /\ result = Failed("none")
  /\ result2 = Failed("none")
  /\ RunIdle

Apply(s) ==
  /\ pc = "input"
  /\ script = s
  /\ result' = PatchOf(s, PolicyDocumentOf(data))
  /\ pc' = "applied"
  /\ UNCHANGED <<script, data, result2>>
  /\ UNCHANGED runVars

UpdatePolicy == Apply("update-policy")
UpdateTelnyxPolicy == Apply("update-telnyx-policy")
UpdateShortUrlsPolicy == Apply("update-short-urls-policy")

\* the same script run on the document it produced
ApplyAgain ==
  /\ pc = "applied"
  /\ result.status = "ok"
  /\ result2' = PatchOf(script, result.doc)
  /\ pc' = "reapplied"
  /\ UNCHANGED <<script, data, result>>
  /\ UNCHANGED runVars

Next == UpdatePolicy \/ UpdateTelnyxPolicy \/ UpdateShortUrlsPolicy \/ ApplyAgain

Spec == Init /\ [][Next]_vars

(***************************************************************************)
(* Properties of Spec.                                                     *)
(***************************************************************************)
In == PolicyDocumentOf(data)
InStmts == StatementsOf(In)
OutStmts == StatementsOf(result.doc)
Arn == TargetArn(script)
Applied == pc # "input"

\* position of the first statement, in document order, that the script's
\* predicate accepts; 0 when there is none
FirstMatching ==
  LET M == { i \in 1..Len(InStmts) : Matches(script, AsList(InStmts[i].Action)) } IN
  IF M = {} THEN 0 ELSE CHOOSE i \in M : \A j \in M : i <= j

Elems(q) == { q[i] : i \in 1..Len(q) }
IsPrefix(p, q) == Len(p) <= Len(q) /\ \A i \in 1..Len(p) : p[i] = q[i]
Changed(r) == r.msg \in {"added", "created"}

\* C1: a script applied to the document its own successful run produced
\* succeeds, reports no change and yields the same document, also when the
\* first run created the fallback statement.
Idempotent ==
  pc = "reapplied" =>
    /\ result2.status = "ok"
    /\ result2.doc = result.doc
    /\ ~Changed(result2)

IdempotentWitness ==
  /\ pc = "reapplied"
  /\ script = "update-short-urls-policy"
  /\ result.msg = "created"
  /\ result2.msg = "already"
  /\ result2.at = Len(InStmts) + 1

\* C2: with a Statement list in which nothing matches, the scripts without a
\* fallback (update-policy.py, update-telnyx-policy.py) fail and hand on no
\* document.
NoMatchSurfaced ==
  ( /\ Applied
    /\ script \in {"update-policy", "update-telnyx-policy"}
    /\ In.Statement.kind = "list"
    /\ FirstMatching = 0 )
  => /\ result.status # "ok"
     /\ result.doc = NoDocument

\* C3: a successful patch keeps every input statement at its position (equal
\* but for Resource, whose elements stay a prefix), adds at most one
\* statement, and adds one only when nothing matched and the fallback was
\* created.
ButResource(st) == [Effect |-> st.Effect, Sid |-> st.Sid, Action |-> st.Action]

NonDestructiveAppend ==
  (Applied /\ result.status = "ok") =>
    /\ Len(OutStmts) \in {Len(InStmts), Len(InStmts) + 1}
    /\ Len(OutStmts) = Len(InStmts) + 1 =>
         (FirstMatching = 0 /\ result.msg = "created"
            /\ script = "update-short-urls-policy")
    /\ \A i \in 1..Len(InStmts) :
         /\ ButResource(OutStmts[i]) = ButResource(InStmts[i])
         /\ IsPrefix(AsList(InStmts[i].Resource), AsList(OutStmts[i].Resource))
    /\ result.doc.Statement.kind = In.Statement.kind

NonDestructiveAppendWitness ==
  /\ Applied /\ result.status = "ok"
  /\ Len(InStmts) = 2
  /\ Len(OutStmts) = 3
  /\ InStmts[1] # InStmts[2]

\* C4: when the first matching statement lacks the target ARN, the ARN
\* becomes the last element of its Resource, a change is reported, and
\* nothing else in the document differs.
AppendToFirstMatch ==
  ( /\ Applied
    /\ In.Statement.kind = "list"
    /\ FirstMatching # 0
    /\ Arn \notin Elems(AsList(InStmts[FirstMatching].Resource)) )
  => /\ result.status = "ok"
     /\ result.msg = "added"
     /\ result.at = FirstMatching
     /\ result.doc =
          [In EXCEPT !.Statement = List(
             [InStmts EXCEPT ![FirstMatching].Resource =
                List(AsList(InStmts[FirstMatching].Resource) \o <<Arn>>)])]

AppendToFirstMatchWitness ==
  /\ Applied
  /\ Len(InStmts) = 2
  /\ FirstMatching = 1
  /\ InStmts[1].Resource.kind = "str"
  /\ InStmts[1].Effect = "Deny"
  /\ Matches(script, AsList(InStmts[2].Action))
  /\ result.msg = "added"
  /\ OutStmts[2] = InStmts[2]

\* C5: when the first matching statement already holds the target ARN, no
\* change is reported and the document is the input document, serialization
\* forms included.
AlreadyPresentUnchanged ==
  ( /\ Applied
    /\ In.Statement.kind = "list"
    /\ FirstMatching # 0
    /\ Arn \in Elems(AsList(InStmts[FirstMatching].Resource)) )
  => /\ result.status = "ok"
     /\ result.msg = "already"
     /\ result.doc = In

AlreadyPresentUnchangedWitness ==
  /\ Applied
  /\ FirstMatching # 0
  /\ InStmts[FirstMatching].Resource = Str(Arn)
  /\ result.msg = "already"
  /\ result.doc = In

\* C6: update-short-urls-policy.py on a Statement list in which nothing
\* matches appends exactly the fallback statement as the last statement and
\* reports a change; when something matched it creates nothing.
FallbackCreated ==
  (Applied /\ script = "update-short-urls-policy" /\ In.Statement.kind = "list") =>
    /\ FirstMatching = 0 =>
         /\ result.status = "ok"
         /\ result.msg = "created"
         /\ Len(OutStmts) = Len(InStmts) + 1
         /\ SubSeq(OutStmts, 1, Len(InStmts)) = InStmts
         /\ LET new == OutStmts[Len(OutStmts)] IN
              /\ new.Effect = "Allow"
              /\ new.Action = List(<<DynamoGetItem, DynamoPutItem, DynamoUpdateItem,
                                     DynamoDeleteItem, DynamoQuery>>)
              /\ new.Resource = List(<<short_urls_arn>>)
              /\ new.Sid = Missing
    /\ FirstMatching # 0 =>
         /\ result.msg # "created"
         /\ Len(OutStmts) = Len(InStmts)

FallbackCreatedWitness ==
  /\ Applied /\ script = "update-short-urls-policy"
  /\ Len(InStmts) >= 1
  /\ FirstMatching = 0
  /\ result.msg = "created"
  /\ \E i \in 1..Len(InStmts) : InStmts[i].Action = Str(SecretsGetSecretValue)

\* C7 as stated: every match and every membership test is on the literal
\* strings, so the statement a script picks holds the action name (or the
\* substring dynamodb) in exactly that spelling.
LiteralMatch(s, actions) ==
  IF s = "update-short-urls-policy"
  THEN \E a \in Elems(actions) : Contains(dynamodb, a)
  ELSE SecretsGetSecretValue \in Elems(actions)

FirstLiteralMatch ==
  LET M == { i \in 1..Len(InStmts) : LiteralMatch(script, AsList(InStmts[i].Action)) } IN
  IF M = {} THEN 0 ELSE CHOOSE i \in M : \A j \in M : i <= j

ResourceTestLiteral ==
  (result.status = "ok" /\ result.msg \in {"added", "already"}) =>
     (result.msg = "already" <=> Arn \in Elems(AsList(InStmts[result.at].Resource)))

CaseSensitiveEverywhere ==
  (Applied /\ In.Statement.kind = "list") =>
    /\ (result.msg \in {"added", "already"} => result.at = FirstLiteralMatch)
    /\ (result.msg \notin {"added", "already"} => FirstLiteralMatch = 0)
    /\ ResourceTestLiteral

\* C7 amended: the secretsmanager predicate and every Resource membership test
\* compare literal strings; the DynamoDB predicate of
\* update-short-urls-policy.py folds each action name to lower case and
\* looks for the substring dynamodb.
FoldedDynamoMatch(actions) ==
  \E a \in Elems(actions) : Contains(dynamodb, lower(a))

FirstFoldedDynamoMatch ==
  LET M == { i \in 1..Len(InStmts) : FoldedDynamoMatch(AsList(InStmts[i].Action)) } IN
  IF M = {} THEN 0 ELSE CHOOSE i \in M : \A j \in M : i <= j

CaseSensitiveExceptDynamoMatch ==
  (Applied /\ In.Statement.kind = "list") =>
    LET first == IF script = "update-short-urls-policy"
                 THEN FirstFoldedDynamoMatch ELSE FirstLiteralMatch IN
    /\ (result.msg \in {"added", "already"} => result.at = first)
    /\ (result.msg \notin {"added", "already"} => first = 0)
    /\ ResourceTestLiteral

CaseSensitiveWitness ==
  /\ Applied /\ script = "update-telnyx-policy"
  /\ Len(InStmts) = 2
  /\ SecretsLowerCase \in Elems(AsList(InStmts[1].Action))
  /\ InStmts[2].Resource = Str(AnyResource)
  /\ result.at = 2
  /\ result.msg = "added"

\* C8: a document whose Statement field is missing or is no list makes the
\* patch fail, and no document is handed on.
MalformedRejected ==
  (Applied /\ In.Statement.kind # "list") =>
    /\ result.status # "ok"
    /\ result.doc = NoDocument

(***************************************************************************)
(* RunSpec: update-telnyx-policy.py and update-short-urls-policy.py, one   *)
(* run each, against the policy IAM stores for mobile-auth-lambda-role /   *)
(* mobile-auth-lambda-policy.                                              *)
(***************************************************************************)
Runs == {"update-telnyx-policy", "update-short-urls-policy"}

\* The lines get-role-policy prints, by shape:
\*   "warning"       a line of text before the JSON
\*   "open"          {                     "close"         }
\*   "member"        "key": value,         "oneline"       {...} on one line
\*   "nested_open"   "key": {              "nested_close"  an indented }
OutputShapes ==
  { <<"open", "member", "close">>,
    <<"warning", "open", "member", "close">>,
    <<"open", "nested_open", "member", "nested_close", "close">>,
    <<"oneline">>,
    <<"warning">> }

\* line.strip().startswith('{')
StartsWithBrace(line) == line \in {"open", "oneline"}
\* line.strip() == '}'
IsClosingBrace(line) == line \in {"close", "nested_close"}

\* the loop of lines 29-34: json_start is the first line starting with {,
\* json_end the first line from there on that is } alone
RECURSIVE ScanLines(_, _, _)
ScanLines(lines, i, json_start) ==
  IF i > Len(lines) THEN <<json_start, 0>>
  ELSE LET start == IF StartsWithBrace(lines[i]) /\ json_start = 0 THEN i ELSE json_start IN
       IF start # 0 /\ IsClosingBrace(lines[i]) THEN <<start, i>>
       ELSE ScanLines(lines, i + 1, start)

\* json.loads(json_str) succeeds when the lines taken are the whole object:
\* the braces they open are closed by the last line and not before
RECURSIVE Depth(_, _)
Depth(lines, n) ==
  IF n = 0 THEN 0
  ELSE Depth(lines, n - 1)
       + (IF lines[n] \in {"open", "nested_open"} THEN 1
          ELSE IF lines[n] \in {"close", "nested_close"} THEN -1 ELSE 0)

ParsesAsJson(lines) ==
  /\ Len(lines) > 0
  /\ lines[1] \in {"open", "oneline"}
  /\ \A i \in 1..Len(lines) : lines[i] # "warning"
  /\ Depth(lines, Len(lines)) = 0
  /\ \A n \in 1..(Len(lines) - 1) : Depth(lines, n) > 0

put_role_policy_reapply(stored, p, policy_json) ==
  LET again == PatchOf(p, stored) IN
  IF again.status = "ok" THEN again.doc ELSE policy_json

\* aws iam put-role-policy --policy-document policy_json: the stored policy
\* becomes the document given, whatever was stored
put_role_policy(stored, p, policy_json) == policy_json

StoredStatements ==
  { Statement("Allow", Missing, Str(SecretsGetSecretValue), Str(AnyResource)),
    Statement("Allow", Missing, List(<<SecretsGetSecretValue, DynamoMixedCase>>), Missing),
    Statement("Allow", Missing, Str(DynamoQuery), List(<<AnyResource, telnyx_arn>>)),
    Statement("Allow", Missing, Str(S3GetObject), Str(short_urls_arn)) }

StoredDocuments ==
  { Document(List(q)) : q \in SeqsUpTo(StoredStatements, MaxStored) }
  \cup { Document(Missing) }

PatchIdle ==
  /\ script = "none"
  /\ data = [encoding |-> "object", doc |-> NoDocument]
  /\ pc = "idle"
  /\ result = Failed("none")
  /\ result2 = Failed("none")

RunInit ==
  /\ PatchIdle
  /\ store \in StoredDocuments
  /\ rpc = [p \in Runs |-> "get"]
  /\ stdout = [p \in Runs |-> [lines |-> <<>>, doc |-> NoDocument]]
  /\ json_range = [p \in Runs |-> <<0, 0>>]
  /\ policy_doc = [p \in Runs |-> NoDocument]
  /\ outcome = [p \in Runs |-> Failed("none")]
  /\ exitcode = [p \in Runs |-> -1]
  /\ trail = [p \in Runs |-> <<>>]
  /\ writes = <<>>
  /\ readAt = [p \in Runs |-> -1]

\* sys.exit(1), or an uncaught exception: the run ends, its document is gone
Exit1(p, event) ==
  /\ rpc' = [rpc EXCEPT ![p] = "done"]
  /\ exitcode' = [exitcode EXCEPT ![p] = 1]
  /\ policy_doc' = [policy_doc EXCEPT ![p] = NoDocument]
  /\ trail' = [trail EXCEPT ![p] = Append(@, event)]

\* lines 14-23, returncode # 0
GetRolePolicyFails(p) ==
  /\ rpc[p] = "get"
  /\ Exit1(p, "get_failed")
  /\ UNCHANGED <<store, stdout, json_range, outcome, writes, readAt>>
  /\ UNCHANGED patchVars

\* lines 14-26, returncode = 0
GetRolePolicy(p) ==
  /\ rpc[p] = "get"
  /\ \E shape \in OutputShapes :
       stdout' = [stdout EXCEPT ![p] = [lines |-> shape, doc |-> store]]
  /\ readAt' = [readAt EXCEPT ![p] = Len(writes)]
  /\ trail' = [trail EXCEPT ![p] = Append(@, "get_ok")]
  /\ rpc' = [rpc EXCEPT ![p] = "scan"]
  /\ UNCHANGED <<store, json_range, policy_doc, outcome, exitcode, writes>>
  /\ UNCHANGED patchVars

\* lines 27-38
LocateJson(p) ==
  /\ rpc[p] = "scan"
  /\ LET r == ScanLines(stdout[p].lines, 1, 0) IN
       /\ json_range' = [json_range EXCEPT ![p] = r]
       /\ IF r[1] = 0 \/ r[2] = 0
          THEN Exit1(p, "no_json")
          ELSE /\ rpc' = [rpc EXCEPT ![p] = "parse"]
               /\ trail' = [trail EXCEPT ![p] = Append(@, "located")]
               /\ UNCHANGED <<policy_doc, exitcode>>
  /\ UNCHANGED <<store, stdout, outcome, writes, readAt>>
  /\ UNCHANGED patchVars

\* lines 40-49
ParseJson(p) ==
  /\ rpc[p] = "parse"
  /\ IF ParsesAsJson(SubSeq(stdout[p].lines, json_range[p][1], json_range[p][2]))
     THEN /\ policy_doc' = [policy_doc EXCEPT ![p] = stdout[p].doc]
          /\ rpc' = [rpc EXCEPT ![p] = "patch"]
          /\ trail' = [trail EXCEPT ![p] = Append(@, "parsed")]
          /\ UNCHANGED exitcode
     ELSE Exit1(p, "parse_error")
  /\ UNCHANGED <<store, stdout, json_range, outcome, writes, readAt>>
  /\ UNCHANGED patchVars

\* update-telnyx-policy.py lines 53-77, update-short-urls-policy.py lines 53-92
PatchStep(p) ==
  /\ rpc[p] = "patch"
  /\ LET r == PatchOf(p, policy_doc[p]) IN
       /\ outcome' = [outcome EXCEPT ![p] = r]
       /\ IF r.status = "ok"
          THEN /\ policy_doc' = [policy_doc EXCEPT ![p] = r.doc]
               /\ rpc' = [rpc EXCEPT ![p] = "put"]
               /\ trail' = [trail EXCEPT ![p] = Append(@, "patched")]
               /\ UNCHANGED exitcode
          ELSE Exit1(p, IF r.status = "exit1" THEN "no_match" ELSE "exception")
  /\ UNCHANGED <<store, stdout, json_range, writes, readAt>>
  /\ UNCHANGED patchVars

\* the put-role-policy call, returncode = 0
PutRolePolicy(p) ==
  /\ rpc[p] = "put"
  /\ store' = put_role_policy(store, p, policy_doc[p])
  /\ writes' = Append(writes, p)
  /\ trail' = [trail EXCEPT ![p] = Append(@, "put_ok")]
  /\ rpc' = [rpc EXCEPT ![p] = "done"]
  /\ exitcode' = [exitcode EXCEPT ![p] = 0]
  /\ UNCHANGED <<stdout, json_range, policy_doc, outcome, readAt>>
  /\ UNCHANGED patchVars

\* the put-role-policy call, returncode # 0
PutRolePolicyFails(p) ==
  /\ rpc[p] = "put"
  /\ Exit1(p, "put_failed")
  /\ UNCHANGED <<store, stdout, json_range, outcome, writes, readAt>>
  /\ UNCHANGED patchVars

RunNext ==
  \E p \in Runs :
    \/ GetRolePolicyFails(p)
    \/ GetRolePolicy(p)
    \/ LocateJson(p)
    \/ ParseJson(p)
    \/ PatchStep(p)
    \/ PutRolePolicy(p)
    \/ PutRolePolicyFails(p)

RunSpec == RunInit /\ [][RunNext]_vars

(***************************************************************************)
(* Properties of RunSpec.                                                  *)
(***************************************************************************)
Count(q, S) == Cardinality({ i \in 1..Len(q) : q[i] \in S })
ResourcesIn(doc) ==
  UNION { Elems(AsList(StatementsOf(doc)[i].Resource)) : i \in 1..Len(StatementsOf(doc)) }

\* both runs read before either wrote, both ended with status 0, p wrote
\* first and had changed the document
BothReadThenWrote(p, q) ==
  /\ p # q
  /\ writes = <<p, q>>
  /\ readAt[p] = 0 /\ readAt[q] = 0
  /\ exitcode[p] = 0 /\ exitcode[q] = 0
  /\ Changed(outcome[p])

\* C9: when both runs read the policy before either wrote it and both
\* succeed, the stored policy is the second writer's document and lacks what
\* the first writer added: running the first writer's patch on it adds the
\* ARN (or creates the statement) again.
LostUpdate ==
  \A p, q \in Runs :
    BothReadThenWrote(p, q) =>
      /\ store = policy_doc[q]
      /\ store # policy_doc[p]
      /\ Changed(PatchOf(p, store))

LostUpdateWitness ==
  /\ BothReadThenWrote("update-telnyx-policy", "update-short-urls-policy")
  /\ outcome["update-telnyx-policy"].msg = "added"
  /\ outcome["update-short-urls-policy"].msg = "created"
  /\ telnyx_arn \notin ResourcesIn(store)
  /\ short_urls_arn \in ResourcesIn(store)

\* what makes the patch step of run p fail on the document it read
PatchMustFail(p, doc) ==
  \/ doc.Statement.kind # "list"
  \/ /\ p = "update-telnyx-policy"
     /\ \A i \in 1..Len(doc.Statement.val) :
          SecretsGetSecretValue \notin Elems(AsList(doc.Statement.val[i].Action))

FailureEvents == {"get_failed", "no_json", "parse_error", "no_match", "exception"}
PutEvents == {"put_ok", "put_failed"}

RunLifecycle ==
  \A p \in Runs :
    \* read once, first of all
    /\ Count(trail[p], {"get_ok", "get_failed"}) <= 1
    /\ trail[p] # <<>> => trail[p][1] \in {"get_ok", "get_failed"}
    \* put at most once, after get, locate, parse and patch went through
    /\ Count(trail[p], PutEvents) <= 1
    /\ Count(trail[p], PutEvents) = 1 =>
         /\ SubSeq(trail[p], 1, 4) = <<"get_ok", "located", "parsed", "patched">>
         /\ Len(trail[p]) = 5
         /\ ParsesAsJson(SubSeq(stdout[p].lines, json_range[p][1], json_range[p][2]))
         /\ ~PatchMustFail(p, stdout[p].doc)
    \* a patch that must fail ends the run
    /\ (rpc[p] \in {"put", "done"} /\ Count(trail[p], {"parsed"}) = 1
          /\ PatchMustFail(p, stdout[p].doc))
         => trail[p][Len(trail[p])] \in {"no_match", "exception"}
    \* a failed run has put nothing, holds no document, ends with status 1
    /\ Count(trail[p], FailureEvents) >= 1 =>
         /\ Count(trail[p], PutEvents) = 0
         /\ Count(writes, {p}) = 0
         /\ policy_doc[p] = NoDocument
         /\ rpc[p] = "done"
         /\ exitcode[p] = 1

\* the store changes only in a successful put; a step that ends a run with
\* status 1 leaves it as it was
StoreSteps ==
  /\ store' # store => \E p \in Runs : trail'[p] = Append(trail[p], "put_ok")
  /\ \A p \in Runs : (exitcode[p] = -1 /\ exitcode'[p] = 1) => store' = store

\* C10: each run reads the policy once at the start, calls put-role-policy
\* at most once and only after get, locate, parse and patch succeeded; a
\* failure in any of these discards the document, never puts, leaves the
\* store unchanged and ends with a nonzero status.
RunLifecycleHolds == [](RunLifecycle) /\ [][StoreSteps]_vars

RunLifecycleWitness ==
  /\ trail["update-telnyx-policy"] = <<"get_ok", "located", "parsed", "no_match">>
  /\ exitcode["update-telnyx-policy"] = 1
  /\ trail["update-short-urls-policy"] =
       <<"get_ok", "located", "parsed", "patched", "put_ok">>
  /\ store # stdout["update-telnyx-policy"].doc

====
